---- MODULE Spec2Model ----
(***************************************************************************)
(* Model of custom_components/sunpower/sunpower.py: the SunPowerMonitor    *)
(* client, its retrying JSON fetcher _request_with_retry and the endpoint  *)
(* operations built on it.                                                 *)
(*                                                                         *)
(* A call is followed step by step: the operation builds its URL and       *)
(* enters the fetcher, every iteration of the attempt loop issues one GET  *)
(* whose outcome the transport chooses, the outcome is dispatched to the   *)
(* first matching except clause, and the call ends by returning the parsed *)
(* JSON or by raising.  Everything observable (requests, log entries,      *)
(* sleeps) is appended to the trace of the calling thread.                 *)
(***************************************************************************)
EXTENDS Integers, Sequences, FiniteSets, TLC

(* ------------------------------ bounds -------------------------------- *)

\* calls one thread makes on the client, one after another
MaxCalls == 2

\* threads that share the client
Threads == {"main", "other"}

\* the thread of the sequential specification
MainThread == "main"

\* hosts the client may be constructed with
Hosts == {"pvs", "172.27.153.1"}

\* command names a caller may hand to generic_command
Commands == {"DeviceList", "Get_Comm", "Start"}

\* HTTP status codes of the responses the device sends
Statuses == {200, 500}

\* response bodies the device sends
Bodies == {"[]", "[1]", "<html>"}

(* ------------------------- program constants -------------------------- *)

MAX_RETRIES == 3

\* the first two delays in the wrong order
RETRY_DELAYS_Swapped == <<5, 2, 10>>

RETRY_DELAYS == <<2, 5, 10>>

\* timeout the endpoint operations pass
OPERATION_TIMEOUT == 120

(* -------------------- the transport's exception classes --------------- *)

\* The exception classes requests.get and response.json can raise, each with
\* the classes an except clause naming one of them catches (its ancestors and
\* itself).  SimplejsonJSONDecodeError is what response.json raises in
\* requests < 2.27 (the simplejson error itself), RequestsJSONDecodeError what
\* it raises from 2.27 on (requests.exceptions.JSONDecodeError, which is a
\* RequestException and a simplejson.JSONDecodeError at once).
ExceptionClasses ==
    {"ConnectionError", "ConnectTimeout", "ReadTimeout", "HTTPError",
     "SimplejsonJSONDecodeError", "RequestsJSONDecodeError"}

Ancestors(cls) ==
    CASE cls = "ConnectionError" -> {"ConnectionError", "RequestException"}
      [] cls = "ConnectTimeout"  -> {"ConnectTimeout", "ConnectionError",
                                     "Timeout", "RequestException"}
      [] cls = "ReadTimeout"     -> {"ReadTimeout", "Timeout", "RequestException"}
      [] cls = "HTTPError"       -> {"HTTPError", "RequestException"}
      [] cls = "SimplejsonJSONDecodeError" -> {"simplejson.JSONDecodeError"}
      [] cls = "RequestsJSONDecodeError" ->
             {"RequestsJSONDecodeError", "InvalidJSONError", "RequestException",
              "simplejson.JSONDecodeError"}
      [] OTHER -> {}

\* classes requests.get itself raises
GetErrors == {"ConnectionError", "ConnectTimeout", "ReadTimeout", "HTTPError"}

\* classes response.json raises on a body that is not JSON, one per installed
\* version of requests
JsonErrors == {"SimplejsonJSONDecodeError", "RequestsJSONDecodeError"}

\* the except clauses of _request_with_retry, in the order they are written
ExceptClauses ==
    <<"ConnectionError", "Timeout", "RequestException",
      "simplejson.JSONDecodeError">>

\* the clause that catches an exception of class cls: the first one naming
\* one of its ancestors; 0 when no clause does
Handler(cls) ==
    IF \E i \in 1..Len(ExceptClauses) : ExceptClauses[i] \in Ancestors(cls)
    THEN CHOOSE i \in 1..Len(ExceptClauses) :
            /\ ExceptClauses[i] \in Ancestors(cls)
            /\ \A j \in 1..(i-1) : ExceptClauses[j] \notin Ancestors(cls)
    ELSE 0

(* ------------------------------ JSON ---------------------------------- *)

\* the value simplejson parses a body to; NotJson when it raises
NotJson == <<-1>>

ParseJson(body) ==
    CASE body = "[]"  -> <<>>
      [] body = "[1]" -> <<1>>
      [] OTHER        -> NotJson

(* ------------------------------ errors -------------------------------- *)

\* a low-level error: its class and the attempt (1-based) that raised it
NoError == [cls |-> "None", at |-> 0]

Error(cls, at) == [cls |-> cls, at |-> at]

(* ------------------------------ URLs ---------------------------------- *)

CommandUrl(h) == "http://" \o h \o "/cgi-bin/dl_cgi?Command="

\* the status URL built on the command-URL template
EssUrlFromTemplate(h) == CommandUrl(h) \o "energy-storage-system/status"

EssUrl(h) == "http://" \o h \o "/cgi-bin/dl_cgi/energy-storage-system/status"

(* ------------------------------ state --------------------------------- *)

VARIABLES
    host,         \* self.host
    command_url,  \* self.command_url
    json_error,   \* the class response.json raises in the installed requests
    pc,           \* per thread: "idle", "get", "sleep", "done"
    op,           \* per thread: the operation the caller invoked
    url,          \* per thread: the url argument of _request_with_retry
    timeout,      \* per thread: the timeout argument
    attempt,      \* per thread: the loop variable (0-based)
    last_error,   \* per thread: the local last_error
    outcomes,     \* per thread: what the transport did on each attempt
    trace,        \* per thread: requests, log entries and sleeps of the call
    result,       \* per thread: how _request_with_retry ended
    returned,     \* per thread: what the operation handed to its caller
    fetches,      \* per thread: _request_with_retry invocations of the call
    calls,        \* per thread: calls started so far
    previous      \* per thread: how the call before this one ended

vars == <<host, command_url, json_error, pc, op, url, timeout, attempt,
          last_error, outcomes, trace, result, returned, fetches, calls, previous>>

client == <<host, command_url, json_error>>

NoResult == [kind |-> "none", exc |-> "none", value |-> NotJson,
             cause |-> NoError, msg |-> "none", n |-> 0, about |-> NoError]

Init ==
    /\ host \in Hosts
    /\ command_url = CommandUrl(host)
    /\ json_error \in JsonErrors
    /\ pc = [t \in Threads |-> "idle"]
    /\ op = [t \in Threads |-> "none"]
    /\ url = [t \in Threads |-> ""]
    /\ timeout = [t \in Threads |-> 0]
    /\ attempt = [t \in Threads |-> 0]
    /\ last_error = [t \in Threads |-> NoError]
    /\ outcomes = [t \in Threads |-> <<>>]
    /\ trace = [t \in Threads |-> <<>>]
    /\ result = [t \in Threads |-> NoResult]
    /\ returned = [t \in Threads |-> NoResult]
    /\ fetches = [t \in Threads |-> 0]
    /\ calls = [t \in Threads |-> 0]
    /\ previous = [t \in Threads |-> "none"]

(* --------------------------- trace entries ---------------------------- *)

Entry(kind, text, u, n, k, err) ==
    [kind |-> kind, text |-> text, url |-> u, n |-> n, k |-> k, err |-> err]

\* requests.get(url, timeout=timeout) of attempt number k
GetEntry(u, tmo, k) == Entry("get", "", u, tmo, k, NoError)

\* _LOGGER.warning("PVS connection failed (attempt %d/%d), retrying in %ds: %s")
WarningEntry(k, delay, err) ==
    Entry("warning", "connection failed, retrying", "", delay, k, err)

\* time.sleep(delay)
SleepEntry(delay) == Entry("sleep", "", "", delay, 0, NoError)

\* the entry logged at the level of a warning
ErrorEntryAsWarning(text, n, err) == Entry("warning", text, "", n, 0, err)

\* _LOGGER.error(text, n, err)
ErrorEntry(text, n, err) == Entry("error", text, "", n, 0, err)

\* the return or raise statement that ends the call with r
EndEntry(r) == Entry(r.kind, r.exc, "", 0, 0, r.cause)

(* ------------------------ the transport's outcome --------------------- *)

\* what one attempt ends in: requests.get raises, or it returns a response
\* whose body response.json parses or rejects
Outcome(cls, status, body) == [cls |-> cls, status |-> status, body |-> body]

GetRaises == {Outcome(c, 0, "") : c \in GetErrors}

Responses == {Outcome("Response", s, b) : s \in Statuses, b \in Bodies}

AttemptOutcomes == GetRaises \cup Responses

\* the class of the exception the try block raises on outcome o; "None" when
\* it raises nothing and line 41 returns
Raised(o) ==
    IF o.cls # "Response" THEN o.cls
    ELSE IF ParseJson(o.body) = NotJson THEN json_error
    ELSE "None"

(* --------------------------- how a call ends -------------------------- *)

\* return response.json()
Returns(value) ==
    [kind |-> "return", exc |-> "none", value |-> value, cause |-> NoError,
     msg |-> "none", n |-> 0, about |-> NoError]

\* raise exc(msg) from cause
Raises(exc, msg, n, about, cause) ==
    [kind |-> "raise", exc |-> exc, value |-> NotJson, cause |-> cause,
     msg |-> msg, n |-> n, about |-> about]

\* the raise after the loop without "from last_error"
LoopExitUnchained(le) ==
    Raises("ConnectionException", "failed after attempts", MAX_RETRIES, le,
           NoError)

\* no raise after the loop: the function runs off its end and returns None
LoopExitFallsOff(le) == Returns(NotJson)

\* the raise after the loop: "Failed to connect to PVS after {MAX_RETRIES}
\* attempts: {last_error}" from last_error
LoopExit(le) ==
    Raises("ConnectionException", "failed after attempts", MAX_RETRIES, le, le)

\* the operation catches the fetcher's exception and returns None
OperationReturnSwallows(r) == IF r.kind = "raise" THEN Returns(NotJson) ELSE r

\* what an operation hands to its caller: the fetcher's return value or
\* exception, as it is
OperationReturn(r) == r

(* ------------------------ entering the fetcher ------------------------ *)

\* the fetcher with its loop variable and last_error kept on the client from
\* one call to the next
EnterKeepsLocals(t, o, u, tmo) ==
    /\ pc[t] \in {"idle", "done"}
    /\ calls[t] < MaxCalls
    /\ calls' = [calls EXCEPT ![t] = @ + 1]
    /\ previous' = [previous EXCEPT ![t] = result[t].kind]
    /\ op' = [op EXCEPT ![t] = o]
    /\ url' = [url EXCEPT ![t] = u]
    /\ timeout' = [timeout EXCEPT ![t] = tmo]
    /\ outcomes' = [outcomes EXCEPT ![t] = <<>>]
    /\ trace' = [trace EXCEPT ![t] = <<>>]
    /\ result' = [result EXCEPT ![t] = NoResult]
    /\ returned' = [returned EXCEPT ![t] = NoResult]
    /\ fetches' = [fetches EXCEPT ![t] = 1]
    /\ pc' = [pc EXCEPT ![t] = "get"]
    /\ UNCHANGED <<client, attempt, last_error>>

\* thread t calls operation o, which calls _request_with_retry(u, timeout=tmo):
\* last_error = None and the loop starts at attempt 0
Enter(t, o, u, tmo) ==
    /\ pc[t] \in {"idle", "done"}
    /\ calls[t] < MaxCalls
    /\ calls' = [calls EXCEPT ![t] = @ + 1]
    /\ previous' = [previous EXCEPT ![t] = result[t].kind]
    /\ op' = [op EXCEPT ![t] = o]
    /\ url' = [url EXCEPT ![t] = u]
    /\ timeout' = [timeout EXCEPT ![t] = tmo]
    /\ attempt' = [attempt EXCEPT ![t] = 0]
    /\ last_error' = [last_error EXCEPT ![t] = NoError]
    /\ outcomes' = [outcomes EXCEPT ![t] = <<>>]
    /\ trace' = [trace EXCEPT ![t] = <<>>]
    /\ result' = [result EXCEPT ![t] = NoResult]
    /\ returned' = [returned EXCEPT ![t] = NoResult]
    /\ fetches' = [fetches EXCEPT ![t] = 1]
    /\ pc' = [pc EXCEPT ![t] = "get"]
    /\ UNCHANGED client

\* the URL generic_command builds
GenericCommandUrl(command) == command_url \o command

generic_command(t) ==
    \E command \in Commands :
        Enter(t, "generic_command", GenericCommandUrl(command), OPERATION_TIMEOUT)

device_list(t) ==
    Enter(t, "device_list", GenericCommandUrl("DeviceList"), OPERATION_TIMEOUT)

energy_storage_system_status(t) ==
    Enter(t, "energy_storage_system_status", EssUrl(host), OPERATION_TIMEOUT)

network_status(t) ==
    Enter(t, "network_status", GenericCommandUrl("Get_Comm"), OPERATION_TIMEOUT)

(* --------------------------- the attempt loop ------------------------- *)

\* the call of thread t ends with r after the entries tr; its operation hands
\* r on
Finish(t, tr, r) ==
    /\ trace' = [trace EXCEPT ![t] = Append(tr, EndEntry(r))]
    /\ result' = [result EXCEPT ![t] = r]
    /\ returned' = [returned EXCEPT ![t] = OperationReturn(r)]
    /\ pc' = [pc EXCEPT ![t] = "done"]

\* the loop bound off by one: range(MAX_RETRIES + 1)
RangeEndOffByOne == MAX_RETRIES + 1

\* for attempt in range(MAX_RETRIES): the loop ends when attempt reaches it
RangeEnd == MAX_RETRIES

\* the loop variable kept on the client, one counter for all threads
NextIterationSharedCounter(t, tr, le) ==
    IF attempt[t] + 1 < RangeEnd
    THEN /\ attempt' = [u \in Threads |-> attempt[t] + 1]
         /\ trace' = [trace EXCEPT ![t] = tr]
         /\ pc' = [pc EXCEPT ![t] = "get"]
         /\ UNCHANGED <<result, returned>>
    ELSE /\ Finish(t, tr, LoopExit(le))
         /\ UNCHANGED attempt

\* the iteration of thread t is over without a return, raise or break, after
\* the entries tr: the loop goes to its next iteration, or ends and line 65
\* raises with the last error le
NextIteration(t, tr, le) ==
    IF attempt[t] + 1 < RangeEnd
    THEN /\ attempt' = [attempt EXCEPT ![t] = @ + 1]
         /\ trace' = [trace EXCEPT ![t] = tr]
         /\ pc' = [pc EXCEPT ![t] = "get"]
         /\ UNCHANGED <<result, returned>>
    ELSE /\ Finish(t, tr, LoopExit(le))
         /\ UNCHANGED attempt

\* one iteration of the loop is due for thread t, and the transport answers
\* its GET with o
Attempt(t, o) ==
    /\ pc[t] = "get"
    /\ attempt[t] < RangeEnd
    /\ o \in AttemptOutcomes
    /\ outcomes' = [outcomes EXCEPT ![t] = Append(@, o)]

\* the trace of thread t after the GET of this iteration
Requested(t) == Append(trace[t], GetEntry(url[t], timeout[t], attempt[t] + 1))

\* lines 40-41: the response parses, its JSON is returned
ReturnJson(t) ==
    \E o \in AttemptOutcomes :
        /\ Attempt(t, o)
        /\ Raised(o) = "None"
        /\ Finish(t, Requested(t), Returns(ParseJson(o.body)))
        /\ UNCHANGED <<client, op, url, timeout, attempt, last_error,
                       fetches, calls, previous>>

\* the handler with the test attempt < MAX_RETRIES: it warns and sleeps after
\* the last attempt as well
ExceptConnectionErrorAlwaysSleeps(t) ==
    \E o \in AttemptOutcomes :
        LET error == Error(Raised(o), attempt[t] + 1)
            delay == RETRY_DELAYS[attempt[t] + 1]
        IN
        /\ Attempt(t, o)
        /\ Handler(Raised(o)) = 1
        /\ attempt[t] < MAX_RETRIES
        /\ last_error' = [last_error EXCEPT ![t] = error]
        /\ trace' = [trace EXCEPT ![t] =
               Requested(t) \o
               <<WarningEntry(attempt[t] + 1, delay, error), SleepEntry(delay)>>]
        /\ pc' = [pc EXCEPT ![t] = "sleep"]
        /\ UNCHANGED <<attempt, result, returned>>
        /\ UNCHANGED <<client, op, url, timeout, fetches, calls, previous>>

\* the handler recording only the first error: last_error is set when it is
\* still None
ExceptConnectionErrorKeepsFirst(t) ==
    \E o \in AttemptOutcomes :
        LET error == Error(Raised(o), attempt[t] + 1)
            kept == IF last_error[t] = NoError THEN error ELSE last_error[t]
        IN
        /\ Attempt(t, o)
        /\ Handler(Raised(o)) = 1
        /\ last_error' = [last_error EXCEPT ![t] = kept]
        /\ IF attempt[t] < MAX_RETRIES - 1
           THEN LET delay == RETRY_DELAYS[attempt[t] + 1] IN
                /\ trace' = [trace EXCEPT ![t] =
                       Requested(t) \o
                       <<WarningEntry(attempt[t] + 1, delay, error),
                         SleepEntry(delay)>>]
                /\ pc' = [pc EXCEPT ![t] = "sleep"]
                /\ UNCHANGED <<attempt, result, returned>>
           ELSE NextIteration(t, Append(Requested(t),
                                        ErrorEntry("failed after attempts",
                                                   MAX_RETRIES, error)),
                              kept)
        /\ UNCHANGED <<client, op, url, timeout, fetches, calls, previous>>

\* lines 42-52: except requests.exceptions.ConnectionError
ExceptConnectionError(t) ==
    \E o \in AttemptOutcomes :
        LET error == Error(Raised(o), attempt[t] + 1) IN
        /\ Attempt(t, o)
        /\ Handler(Raised(o)) = 1
        /\ last_error' = [last_error EXCEPT ![t] = error]
        /\ IF attempt[t] < MAX_RETRIES - 1
           THEN LET delay == RETRY_DELAYS[attempt[t] + 1] IN
                /\ trace' = [trace EXCEPT ![t] =
                       Requested(t) \o
                       <<WarningEntry(attempt[t] + 1, delay, error),
                         SleepEntry(delay)>>]
                /\ pc' = [pc EXCEPT ![t] = "sleep"]
                /\ UNCHANGED <<attempt, result, returned>>
           ELSE NextIteration(t, Append(Requested(t),
                                        ErrorEntry("failed after attempts",
                                                   MAX_RETRIES, error)),
                              error)
        /\ UNCHANGED <<client, op, url, timeout, fetches, calls, previous>>

\* time.sleep(delay) returns and the loop goes to its next iteration
SleepEnds(t) ==
    /\ pc[t] = "sleep"
    /\ NextIteration(t, trace[t], last_error[t])
    /\ UNCHANGED <<client, op, url, timeout, last_error, outcomes, fetches,
                   calls, previous>>

\* lines 53-56: except requests.exceptions.Timeout
ExceptTimeout(t) ==
    \E o \in AttemptOutcomes :
        LET error == Error(Raised(o), attempt[t] + 1) IN
        /\ Attempt(t, o)
        /\ Handler(Raised(o)) = 2
        /\ Finish(t, Append(Requested(t),
                            ErrorEntry("timed out", timeout[t], error)),
                  Raises("ConnectionException", "timed out", timeout[t],
                         NoError, error))
        /\ UNCHANGED <<client, op, url, timeout, attempt, last_error,
                       fetches, calls, previous>>

\* the handler with continue in the place of break: the failure is retried
\* without a delay
ExceptRequestExceptionContinue(t) ==
    \E o \in AttemptOutcomes :
        LET error == Error(Raised(o), attempt[t] + 1) IN
        /\ Attempt(t, o)
        /\ Handler(Raised(o)) = 3
        /\ last_error' = [last_error EXCEPT ![t] = error]
        /\ NextIteration(t, Append(Requested(t),
                                   ErrorEntry("request failed", 0, error)),
                         error)
        /\ UNCHANGED <<client, op, url, timeout, fetches, calls, previous>>

\* lines 57-60 and 65: except requests.exceptions.RequestException, break
ExceptRequestException(t) ==
    \E o \in AttemptOutcomes :
        LET error == Error(Raised(o), attempt[t] + 1) IN
        /\ Attempt(t, o)
        /\ Handler(Raised(o)) = 3
        /\ last_error' = [last_error EXCEPT ![t] = error]
        /\ Finish(t, Append(Requested(t),
                            ErrorEntry("request failed", 0, error)),
                  LoopExit(error))
        /\ UNCHANGED <<client, op, url, timeout, attempt, fetches, calls, previous>>

\* lines 61-63: except simplejson.errors.JSONDecodeError
ExceptJSONDecodeError(t) ==
    \E o \in AttemptOutcomes :
        LET error == Error(Raised(o), attempt[t] + 1) IN
        /\ Attempt(t, o)
        /\ Handler(Raised(o)) = 4
        /\ Finish(t, Append(Requested(t),
                            ErrorEntry("invalid JSON", 0, error)),
                  Raises("ParseException", "invalid JSON", 0, error, error))
        /\ UNCHANGED <<client, op, url, timeout, attempt, last_error,
                       fetches, calls, previous>>

(* --------------------------- specifications --------------------------- *)

Step(t) ==
    \/ generic_command(t)
    \/ device_list(t)
    \/ energy_storage_system_status(t)
    \/ network_status(t)
    \/ ReturnJson(t)
    \/ ExceptConnectionError(t)
    \/ SleepEnds(t)
    \/ ExceptTimeout(t)
    \/ ExceptRequestException(t)
    \/ ExceptJSONDecodeError(t)

\* one caller at a time
Next == Step(MainThread)

Spec == Init /\ [][Next]_vars

\* the steps inside _request_with_retry
Loop(t) ==
    \/ ReturnJson(t)
    \/ ExceptConnectionError(t)
    \/ SleepEnds(t)
    \/ ExceptTimeout(t)
    \/ ExceptRequestException(t)
    \/ ExceptJSONDecodeError(t)

\* every request returns or fails (its timeout bounds it) and every sleep ends
FairSpec == Spec /\ WF_vars(Loop(MainThread))

\* the thread that polls the client while the main thread uses it
OtherThread == "other"

\* what the polling thread does: the device list or the storage status, and
\* the steps of the fetcher under them
Poll(t) ==
    \/ device_list(t)
    \/ energy_storage_system_status(t)
    \/ Loop(t)

\* two callers share the client, each making one call in a thread of its
\* own, and the steps of the two calls interleave in any order
ConcNext ==
    \/ pc[MainThread] # "done" /\ Step(MainThread)
    \/ pc[OtherThread] # "done" /\ Poll(OtherThread)

ConcSpec == Init /\ [][ConcNext]_vars

(* ------------------------- reading a call's trace --------------------- *)

Kinds(t, kind) == SelectSeq(trace[t], LAMBDA e : e.kind = kind)

\* the durations the call slept for, in order
SleepDurations(t) ==
    [i \in 1..Len(Kinds(t, "sleep")) |-> Kinds(t, "sleep")[i].n]

Requests(t) == Len(Kinds(t, "get"))

\* the entry before the statement that ended the call
BeforeEnd(t) == trace[t][Len(trace[t]) - 1]

\* a connectivity failure that is not a timeout
IsConnectivity(o) == o.cls = "ConnectionError"

\* a timeout of either kind
IsTimeout(o) == o.cls \in {"ConnectTimeout", "ReadTimeout"}

\* a request failure that is neither of them
IsGeneric(o) == o.cls = "HTTPError"

IsValidJson(o) == o.cls = "Response" /\ ParseJson(o.body) # NotJson

IsInvalidJson(o) == o.cls = "Response" /\ ParseJson(o.body) = NotJson

\* the first n outcomes of the call are connectivity failures
ConnectivityUpTo(t, n) ==
    /\ n <= Len(outcomes[t])
    /\ \A i \in 1..n : IsConnectivity(outcomes[t][i])

Last(seq) == seq[Len(seq)]

(* ------------------------------- claims ------------------------------- *)

\* C1: when attempts 1..k-1 end in a connectivity failure and attempt k
\* returns a valid JSON body (k in 1..3), the call returns the JSON parsed
\* from attempt k, has issued exactly k requests and has slept exactly k-1
\* times, for the first k-1 durations of (2s, 5s) in order, and nothing
\* happens between the k-th request and the return.
C1_RetryThenSucceed ==
    \A t \in Threads : \A k \in 1..3 :
        ( /\ Len(outcomes[t]) = k
          /\ ConnectivityUpTo(t, k - 1)
          /\ IsValidJson(outcomes[t][k]) )
        => /\ pc[t] = "done"
           /\ result[t] = Returns(ParseJson(outcomes[t][k].body))
           /\ Requests(t) = k
           /\ SleepDurations(t) = SubSeq(<<2, 5>>, 1, k - 1)
           /\ BeforeEnd(t).kind = "get"
           /\ BeforeEnd(t).k = k

\* two connectivity failures, then a valid body on the third attempt
C1_Witness ==
    /\ pc[MainThread] = "done"
    /\ Len(outcomes[MainThread]) = 3
    /\ ConnectivityUpTo(MainThread, 2)
    /\ IsValidJson(outcomes[MainThread][3])
    /\ result[MainThread].kind = "return"
    /\ result[MainThread].value = <<1>>

\* C2: when every attempt ends in a connectivity failure the call goes on
\* until the third one and then raises ConnectionException, after exactly 3
\* requests and exactly 2 sleeps (2s then 5s, none after the third attempt),
\* and the error it carries is the failure of the third attempt.
C2_Exhaustion ==
    \A t \in Threads :
        /\ \A n \in 1..2 :
               (Len(outcomes[t]) = n /\ ConnectivityUpTo(t, n))
               => pc[t] \in {"sleep", "get"}
        /\ ConnectivityUpTo(t, 3)
           => /\ pc[t] = "done"
              /\ result[t].kind = "raise"
              /\ result[t].exc = "ConnectionException"
              /\ result[t].cause = Error("ConnectionError", 3)
              /\ result[t].about = Error("ConnectionError", 3)
              /\ Requests(t) = 3
              /\ SleepDurations(t) = <<2, 5>>
              /\ BeforeEnd(t).kind = "error"
              /\ trace[t][Len(trace[t]) - 2].kind = "get"

\* three connectivity failures in a row
C2_Witness ==
    /\ ConnectivityUpTo(MainThread, 3)
    /\ pc[MainThread] = "done"
    /\ result[MainThread].exc = "ConnectionException"

\* C3: an attempt that ends in a timeout of any kind, a timeout while
\* establishing the connection included, is the last one: the call raises
\* ConnectionException at once, with no further request and no sleep.
C3_TimeoutNeverRetried ==
    \A t \in Threads : \A i \in 1..Len(outcomes[t]) :
        IsTimeout(outcomes[t][i])
        => /\ i = Len(outcomes[t])
           /\ pc[t] = "done"
           /\ result[t].kind = "raise"
           /\ result[t].exc = "ConnectionException"
           /\ result[t].msg = "timed out"
           /\ BeforeEnd(t).kind = "error"
           /\ trace[t][Len(trace[t]) - 2].kind = "get"

\* C4: a response whose body is not valid JSON, on the first or any later
\* attempt, ends the call with ParseException (not ConnectionException), with
\* no further request and no sleep after that attempt.
C4_InvalidJsonIsParseException ==
    \A t \in Threads : \A i \in 1..Len(outcomes[t]) :
        IsInvalidJson(outcomes[t][i])
        => /\ i = Len(outcomes[t])
           /\ pc[t] = "done"
           /\ BeforeEnd(t).kind = "error"
           /\ trace[t][Len(trace[t]) - 2].kind = "get"
           /\ result[t].kind = "raise"
           /\ result[t].exc = "ParseException"

\* C5: a generic request failure (neither a connectivity failure nor a
\* timeout), on the first or any later attempt, ends the loop at once: the
\* call raises ConnectionException carrying that failure, with no further
\* request and no sleep after that attempt.
C5_GenericFailureStops ==
    \A t \in Threads : \A i \in 1..Len(outcomes[t]) :
        IsGeneric(outcomes[t][i])
        => /\ i = Len(outcomes[t])
           /\ pc[t] = "done"
           /\ Requests(t) = i
           /\ result[t].kind = "raise"
           /\ result[t].exc = "ConnectionException"
           /\ result[t].cause = Error("HTTPError", i)
           /\ result[t].about = Error("HTTPError", i)
           /\ BeforeEnd(t).kind = "error"
           /\ trace[t][Len(trace[t]) - 2] = GetEntry(url[t], timeout[t], i)

\* a generic request failure on the second attempt, after one retry
C5_Witness ==
    /\ Len(outcomes[MainThread]) = 2
    /\ IsConnectivity(outcomes[MainThread][1])
    /\ IsGeneric(outcomes[MainThread][2])
    /\ pc[MainThread] = "done"
    /\ result[MainThread].cause = Error("HTTPError", 2)

\* C6: a call ends in exactly one of three ways, decided by its last attempt:
\* it returns the JSON parsed from a valid body, or it raises
\* ConnectionException or ParseException after an attempt that failed; no
\* other exception escapes and no failure becomes a normal return.
C6_ThreeWaysToEnd ==
    \A t \in Threads :
        pc[t] = "done"
        => LET o == Last(outcomes[t]) IN
           /\ result[t].kind \in {"return", "raise"}
           /\ IsValidJson(o)
              => result[t] = Returns(ParseJson(o.body))
           /\ ~IsValidJson(o)
              => /\ result[t].kind = "raise"
                 /\ result[t].exc \in {"ConnectionException", "ParseException"}
           /\ result[t].kind = "return"
              => /\ result[t].exc = "none"
                 /\ result[t].value # NotJson
           /\ Last(trace[t]) = EndEntry(result[t])

\* a call that ran out of attempts and raised
C6_Witness ==
    /\ pc[MainThread] = "done"
    /\ Len(outcomes[MainThread]) = MAX_RETRIES
    /\ ~IsValidJson(Last(outcomes[MainThread]))
    /\ result[MainThread].kind = "raise"

\* the URLs the three named operations must request, per host
ExpectedUrl ==
    [o \in {"device_list", "network_status", "energy_storage_system_status"} |->
       [h \in Hosts |->
          IF h = "pvs"
          THEN CASE o = "device_list" ->
                      "http://pvs/cgi-bin/dl_cgi?Command=DeviceList"
                 [] o = "network_status" ->
                      "http://pvs/cgi-bin/dl_cgi?Command=Get_Comm"
                 [] OTHER ->
                      "http://pvs/cgi-bin/dl_cgi/energy-storage-system/status"
          ELSE CASE o = "device_list" ->
                      "http://172.27.153.1/cgi-bin/dl_cgi?Command=DeviceList"
                 [] o = "network_status" ->
                      "http://172.27.153.1/cgi-bin/dl_cgi?Command=Get_Comm"
                 [] OTHER ->
                      "http://172.27.153.1/cgi-bin/dl_cgi/energy-storage-system/status"]]

\* C7: on a client for host h every request of device_list goes to
\* http://h/cgi-bin/dl_cgi?Command=DeviceList, of network_status to
\* http://h/cgi-bin/dl_cgi?Command=Get_Comm and of
\* energy_storage_system_status to
\* http://h/cgi-bin/dl_cgi/energy-storage-system/status.
C7_UrlConstruction ==
    \A t \in Threads :
        op[t] \in DOMAIN ExpectedUrl
        => /\ url[t] = ExpectedUrl[op[t]][host]
           /\ \A i \in 1..Len(trace[t]) :
                  trace[t][i].kind = "get"
                  => trace[t][i].url = ExpectedUrl[op[t]][host]

\* the storage status was requested three times from the host 172.27.153.1
C7_Witness ==
    /\ host = "172.27.153.1"
    /\ op[MainThread] = "energy_storage_system_status"
    /\ Requests(MainThread) = 3
    /\ Kinds(MainThread, "get")[3].url =
           "http://172.27.153.1/cgi-bin/dl_cgi/energy-storage-system/status"

\* C8: on every path where the call raises (exhaustion, timeout, generic
\* request failure, invalid JSON) an error-level log entry for the failure
\* that is raised lies in the trace of the call before the raise.
C8_LoggedBeforeRaised ==
    \A t \in Threads :
        (pc[t] = "done" /\ result[t].kind = "raise")
        => /\ Last(trace[t]).kind = "raise"
           /\ \E i \in 1..(Len(trace[t]) - 1) :
                  /\ trace[t][i].kind = "error"
                  /\ trace[t][i].err = result[t].cause
                  /\ trace[t][i].err = Error(Raised(Last(outcomes[t])),
                                             Len(outcomes[t]))
           /\ \A i \in 1..Len(trace[t]) :
                  trace[t][i].kind = "raise" => i = Len(trace[t])

\* a call that ran out of attempts on connection timeouts: the error log of
\* line 52 comes right before the raise of line 65
C8_Witness ==
    /\ pc[MainThread] = "done"
    /\ result[MainThread].kind = "raise"
    /\ BeforeEnd(MainThread) =
           ErrorEntry("failed after attempts", 3, Error("ConnectTimeout", 3))

\* C9: a call issues at most MAX_RETRIES = 3 requests and sleeps at most
\* twice, whatever the attempts end in, and, every request and every sleep
\* coming to an end, the call ends.
C9_Terminates ==
    /\ [](\A t \in Threads :
             /\ Requests(t) <= 3
             /\ Requests(t) <= MAX_RETRIES
             /\ Len(Kinds(t, "sleep")) <= 2
             /\ Len(outcomes[t]) = Requests(t) \/ pc[t] = "idle")
    /\ \A t \in Threads : (pc[t] \in {"get", "sleep"}) ~> (pc[t] = "done")

\* a call that used all three requests and both sleeps
C9_Witness ==
    /\ pc[MainThread] = "done"
    /\ Requests(MainThread) = 3
    /\ Len(Kinds(MainThread, "sleep")) = 2

\* C10: each operation (device_list, network_status,
\* energy_storage_system_status, generic_command) enters the fetcher once with
\* its URL and a timeout of 120 seconds, every request of the call uses that
\* URL and timeout, and what the operation hands to its caller is what the
\* fetcher returned or raised, unchanged.
C10_OperationsPassThrough ==
    \A t \in Threads :
        op[t] \in {"device_list", "network_status",
                   "energy_storage_system_status", "generic_command"}
        => /\ fetches[t] = 1
           /\ timeout[t] = 120
           /\ \A i \in 1..Len(trace[t]) :
                  trace[t][i].kind = "get"
                  => trace[t][i].url = url[t] /\ trace[t][i].n = 120
           /\ pc[t] # "done" => returned[t] = NoResult
           /\ pc[t] = "done"
              => /\ returned[t] = result[t]
                 /\ returned[t].kind \in {"return", "raise"}
                 /\ IsValidJson(Last(outcomes[t]))
                    => returned[t].value = ParseJson(Last(outcomes[t]).body)
                 /\ ~IsValidJson(Last(outcomes[t]))
                    => /\ returned[t].kind = "raise"
                       /\ returned[t].cause = Error(Raised(Last(outcomes[t])),
                                                    Len(outcomes[t]))

\* network_status let the fetcher's ParseException through
C10_Witness ==
    /\ pc[MainThread] = "done"
    /\ op[MainThread] = "network_status"
    /\ returned[MainThread].kind = "raise"
    /\ returned[MainThread].exc = "ParseException"

\* C11: the ConnectionException whose message says that connecting failed
\* after MAX_RETRIES attempts is raised only by a call that issued all 3
\* requests and had every one of them end in the retried connection failure.
C11_ExhaustionOnlyAfterRetries ==
    \A t \in Threads :
        ( /\ pc[t] = "done"
          /\ result[t].kind = "raise"
          /\ result[t].msg = "failed after attempts" )
        => /\ Requests(t) = 3
           /\ Len(outcomes[t]) = 3
           /\ \A i \in 1..3 : Handler(Raised(outcomes[t][i])) = 1

\* C12: when the message of a raised ConnectionException states a number of
\* attempts, the call has issued that number of requests.
C12_StatedAttemptsAreRequests ==
    \A t \in Threads :
        ( /\ pc[t] = "done"
          /\ result[t].kind = "raise"
          /\ result[t].exc = "ConnectionException"
          /\ result[t].msg = "failed after attempts" )
        => result[t].n = Requests(t)

\* C13: whenever a call has raised ConnectionException or ParseException, the
\* low-level error chained as its cause is the error of the last attempt the
\* call issued: never the error of an earlier attempt, never absent.
C13_CauseIsLastError ==
    \A t \in Threads :
        (pc[t] = "done" /\ result[t].kind = "raise")
        => /\ result[t].exc \in {"ConnectionException", "ParseException"}
           /\ result[t].cause # NoError
           /\ result[t].cause.at = Requests(t)
           /\ result[t].cause.cls = Raised(Last(outcomes[t]))

\* a read timeout on the second attempt, after a connection failure on the
\* first: the cause is the timeout although last_error still holds the
\* connection failure
C13_Witness ==
    /\ pc[MainThread] = "done"
    /\ Len(outcomes[MainThread]) = 2
    /\ last_error[MainThread] = Error("ConnectionError", 1)
    /\ result[MainThread].cause = Error("ReadTimeout", 2)

\* C14 as stated: RETRY_DELAYS holds one delay fewer than MAX_RETRIES, so a
\* call that runs out of attempts has slept for every delay of the sequence.
C14_OneFewerDelay ==
    \A t \in Threads :
        (pc[t] = "done" /\ Requests(t) = MAX_RETRIES
            /\ \A i \in 1..Len(outcomes[t]) : Handler(Raised(outcomes[t][i])) = 1)
        => /\ Len(RETRY_DELAYS) = MAX_RETRIES - 1
           /\ SleepDurations(t) = RETRY_DELAYS

\* C14, amended: RETRY_DELAYS holds as many delays as MAX_RETRIES (three: 2s,
\* 5s, 10s); a call sleeps at most MAX_RETRIES - 1 times, its i-th sleep is
\* the wait RETRY_DELAYS[i] after attempt i, and the last delay of the
\* sequence (10s) is never slept.
C14_DelaysUsed ==
    /\ Len(RETRY_DELAYS) = MAX_RETRIES
    /\ RETRY_DELAYS = <<2, 5, 10>>
    /\ \A t \in Threads :
          /\ Len(SleepDurations(t)) <= MAX_RETRIES - 1
          /\ \A i \in 1..Len(SleepDurations(t)) :
                 /\ SleepDurations(t)[i] = RETRY_DELAYS[i]
                 /\ Kinds(t, "warning")[i].k = i
                 /\ Kinds(t, "warning")[i].n = RETRY_DELAYS[i]
          /\ \A j \in 1..Len(trace[t]) :
                 trace[t][j].kind = "sleep"
                 => trace[t][j].n # RETRY_DELAYS[Len(RETRY_DELAYS)]

\* a call that ran out of attempts and slept 2s and 5s only
C14_Witness ==
    /\ pc[MainThread] = "done"
    /\ Requests(MainThread) = MAX_RETRIES
    /\ result[MainThread].msg = "failed after attempts"
    /\ SleepDurations(MainThread) = <<2, 5>>
    /\ SleepDurations(MainThread) # RETRY_DELAYS

\* C15: when a call is over, it has slept once less than it has issued
\* requests and has logged one warning per sleep, and each sleep came
\* directly after a connectivity failure (its warning between them) on a
\* non-final attempt and directly before the next request.
C15_SleepsBetweenRequests ==
    \A t \in Threads :
        pc[t] = "done"
        => /\ Len(Kinds(t, "sleep")) = Requests(t) - 1
           /\ Len(Kinds(t, "warning")) = Len(Kinds(t, "sleep"))
           /\ \A j \in 1..Len(trace[t]) :
                  trace[t][j].kind = "sleep"
                  => /\ j > 2 /\ j < Len(trace[t])
                     /\ trace[t][j - 1].kind = "warning"
                     /\ trace[t][j - 2].kind = "get"
                     /\ trace[t][j - 2].k < MAX_RETRIES
                     /\ IsConnectivity(outcomes[t][trace[t][j - 2].k])
                     /\ trace[t][j + 1].kind = "get"
                     /\ trace[t][j + 1].k = trace[t][j - 2].k + 1

\* C16: a call returns parsed JSON only for a successful response: a response
\* with an HTTP error status (4xx or 5xx) never yields a returned value, even
\* when its body is valid JSON, but a raised ConnectionException or
\* ParseException.
C16_ErrorStatusNotReturned ==
    \A t \in Threads :
        ( /\ pc[t] = "done"
          /\ Last(outcomes[t]).cls = "Response"
          /\ Last(outcomes[t]).status >= 400 )
        => /\ result[t].kind = "raise"
           /\ result[t].exc \in {"ConnectionException", "ParseException"}
           /\ returned[t].kind = "raise"

\* how a call with the timeout tmo ends when its attempts end in os, by the
\* last of them alone
OutcomeOfCall(os, tmo) ==
    LET o == Last(os)
        e == Error(Raised(o), Len(os))
    IN  IF Raised(o) = "None" THEN Returns(ParseJson(o.body))
        ELSE CASE Handler(Raised(o)) = 2 ->
                     Raises("ConnectionException", "timed out", tmo, NoError, e)
               [] Handler(Raised(o)) = 4 ->
                     Raises("ParseException", "invalid JSON", 0, e, e)
               [] OTHER ->
                     Raises("ConnectionException", "failed after attempts",
                            3, e, e)

\* the error a call has recorded in last_error after the attempts os: that of
\* the last attempt caught by the first or the third except clause
RecordedError(os) ==
    LET caught == {i \in 1..Len(os) : Handler(Raised(os[i])) \in {1, 3}}
    IN  IF caught = {} THEN NoError
        ELSE LET i == CHOOSE i \in caught : \A j \in caught : j <= i
             IN  Error(Raised(os[i]), i)

\* C17: no step changes host or command_url, and a call depends on nothing
\* but its URL, its timeout and the outcomes of its own attempts, whatever the
\* calls before it did: it starts at attempt 0 with no last error, has
\* issued one request per outcome and slept between them, and ends as its
\* own last attempt decides, so a call after a failed call has all 3 attempts.
C17_CallsAreStateless ==
    /\ [][host' = host /\ command_url' = command_url]_vars
    /\ [](\A t \in Threads :
            /\ command_url = CommandUrl(host)
            /\ pc[t] = "get"
               => /\ attempt[t] = Len(outcomes[t])
                  /\ MAX_RETRIES - attempt[t] = 3 - Len(outcomes[t])
                  /\ attempt[t] < MAX_RETRIES
            /\ pc[t] \in {"sleep", "done"}
               => attempt[t] = Len(outcomes[t]) - 1
            /\ pc[t] # "idle"
               => /\ Requests(t) = Len(outcomes[t])
                  /\ last_error[t] = RecordedError(outcomes[t])
                  /\ \A i \in 1..Requests(t) :
                         Kinds(t, "get")[i] = GetEntry(url[t], timeout[t], i)
            /\ pc[t] = "done"
               => /\ result[t] = OutcomeOfCall(outcomes[t], timeout[t])
                  /\ SleepDurations(t)
                       = SubSeq(<<2, 5>>, 1, Len(outcomes[t]) - 1))

\* the second call of a thread, after a call that raised, returned the JSON
\* of its third attempt
C17_Witness ==
    /\ calls[MainThread] = 2
    /\ previous[MainThread] = "raise"
    /\ pc[MainThread] = "done"
    /\ Requests(MainThread) = 3
    /\ result[MainThread].kind = "return"

\* what thread t holds of its call: the locals of _request_with_retry and
\* what the call has done and produced
CallOf(t) ==
    <<pc[t], url[t], timeout[t], attempt[t], last_error[t], outcomes[t],
      trace[t], result[t], returned[t]>>

\* C18: with two calls running at once on one client, in threads of their
\* own, a step of one call leaves the attempt counter, the last error and
\* everything else of the other call as it was; each call issues at most 3
\* requests, its counter and last error follow from its own attempts, and it
\* ends as its own last attempt decides.
C18_ConcurrentCallsAreIndependent ==
    /\ [][\A t \in Threads : \A u \in Threads \ {t} :
             CallOf(t)' # CallOf(t) => CallOf(u)' = CallOf(u)]_vars
    /\ [](\A t \in Threads :
            /\ Requests(t) <= 3
            /\ Len(outcomes[t]) = Requests(t)
            /\ attempt[t] = Len(Kinds(t, "sleep"))
                              - (IF pc[t] = "sleep" THEN 1 ELSE 0)
            /\ last_error[t] = RecordedError(outcomes[t])
            /\ \A i \in 1..Len(trace[t]) :
                   trace[t][i].kind = "get" => trace[t][i].url = url[t]
            /\ pc[t] = "done"
               => /\ result[t] = OutcomeOfCall(outcomes[t], timeout[t])
                  /\ returned[t] = result[t])

\* both calls are between two attempts at once: the main thread sleeps after
\* its second failure while the other sleeps after its first
C18_Witness ==
    /\ pc[MainThread] = "sleep"
    /\ pc[OtherThread] = "sleep"
    /\ attempt[MainThread] = 1
    /\ attempt[OtherThread] = 0
    /\ last_error[MainThread] = Error("ConnectTimeout", 2)
    /\ last_error[OtherThread] = Error("ConnectionError", 1)

====
